---- MODULE Spec2Model ----
(***************************************************************************)
(* The restarted flexible GCR solver (lib/gpt/algorithms/inverter/fgcr.py) *)
(* and the coarse-link assembly (lib/gpt/core/coarse/__init__.py).         *)
(*                                                                         *)
(* The lattice fields and the operator are external collaborators.  What   *)
(* they compute is abstracted as follows:                                  *)
(*   - norms (r2, ssq, rsq, gamma) are small naturals supplied by the      *)
(*     collaborators (the inputs of Solve and Iterate);                    *)
(*   - psi is the sequence of back-substitutions applied to it since the   *)
(*     call was entered, each named by the Krylov cycle it folds in;       *)
(*   - r is named by the psi it was last recomputed from and the number of *)
(*     recursive updates applied since;                                    *)
(*   - a coarse link entry is a term naming the slot, site, row and column *)
(*     it was written to, with the sign flips and conjugations applied.    *)
(***************************************************************************)
EXTENDS Integers, Sequences, FiniteSets, TLC

\* ------------------------------------------------------------------ bounds
MaxIter == 4
MaxRestart == 2
MaxNorm == 2

\* values of r2 after a residual update or a restart
Norms == 0..MaxNorm
\* norm2(src) and the norm2 of the initial residual: zero or not
EntryNorms == {0, 1}
EpsValues == {0, 1}

CoarseExtent == 3
MaxBasis == 3

VARIABLES params, is_verbose, fgcr, twin, links, coarse

fgcrVars == <<params, is_verbose, fgcr, twin>>
coarseVars == <<links, coarse>>
vars == <<params, is_verbose, fgcr, twin, links, coarse>>

\* ------------------------------------------------------------ fgcr: state
\* self.history before the first solve
None == <<-1>>

Params == [eps : EpsValues, maxiter : 0..MaxIter, restartlen : 0..MaxRestart,
           checkres : BOOLEAN]

\* the fgcr object after __init__, no solve entered yet
NewFgcr ==
    [history |-> None, pc |-> "idle", verbose |-> FALSE, k |-> 0,
     psi |-> <<>>, cyclePsi |-> <<>>, r |-> [from |-> <<>>, steps |-> 0],
     r2 |-> 0, ssq |-> 0, rsq |-> 0, src2 |-> 0, res0 |-> 0,
     log |-> <<>>, err |-> "none", stop |-> "none"]

\* what the solver did, in order: the event, its iteration k (-1 before the
\* loop) and, for a residual update, the r2 it returned
Ev(e, k, v) == [ev |-> e, k |-> k, val |-> v]

\* ------------------------------------------------------- fgcr: operations
\* update_psi: psi += sum_{j <= i} delta[j] * p[j], the directions of the
\* cycle that started at iteration k - i
update_psi(s, k, i) ==
    [s EXCEPT !.psi = Append(@, <<k - i, i>>),
              !.log = Append(@, Ev("update_psi", k, 0))]

\* calc_res: mat(mmpsi, psi); r = src - mmpsi; returns norm2(r)
calc_res(s, k) ==
    [s EXCEPT !.r = [from |-> s.psi, steps |-> 0],
              !.log = Append(@, Ev("calc_res", k, 0))]

\* restart: (zero p when preconditioned,) return calc_res(...)
restart(s, k, res) ==
    [calc_res(s, k) EXCEPT !.r2 = res, !.cyclePsi = s.psi,
                           !.log = Append(s.log, Ev("restart", k, 0))]

\* self.history = []
ResetHistoryKeep(h) == IF h = None THEN <<>> ELSE h
ResetHistory(h) == <<>>

\* lines 63-97: entry of inv(psi, src) up to the target residual
Enter(s, verbose, src2, res0) ==
    LET s0 == [NewFgcr EXCEPT !.history = ResetHistory(s.history),
                              !.verbose = verbose,
                              !.src2 = src2, !.res0 = res0]
        s1 == restart(s0, -1, res0)
        ssq == IF src2 = 0 THEN s1.r2 ELSE src2
    IN  IF src2 = 0 /\ s1.r2 = 0
        THEN [s1 EXCEPT !.pc = "raised", !.err = "AssertionError"]
        ELSE [s1 EXCEPT !.ssq = ssq,
                        !.rsq = params.eps * params.eps * ssq,
                        !.pc = IF params.maxiter > 0 THEN "loop" ELSE "done",
                        !.stop = IF params.maxiter > 0 THEN "none" ELSE "range"]

\* iteration criteria
reached_maxiter(k) == k + 1 = params.maxiter
need_restart(i) == i + 1 = params.restartlen
convergedStrict(r2, rsq) == r2 < rsq
converged(r2, rsq) == r2 <= rsq

\* if r2 <= rsq or need_restart or reached_maxiter
NeedsUpdateNoRestart(r2, rsq, k, i) == converged(r2, rsq) \/ reached_maxiter(k)
NeedsUpdate(r2, rsq, k, i) ==
    converged(r2, rsq) \/ need_restart(i) \/ reached_maxiter(k)

\* if verbose: ... if self.checkres: res = self.calc_res(...)
ChecksResidualAlways(s) == params.checkres
ChecksResidual(s) == s.verbose /\ params.checkres

\* the body of "if r2 <= rsq:" and of "if reached_maxiter:", ending in break
TerminateVerboseBreak(s, k, why) ==
    LET s1 == IF ChecksResidual(s) THEN calc_res(s, k) ELSE s
    IN  IF s.verbose
        THEN [s1 EXCEPT !.pc = "done", !.stop = why]
        ELSE [s1 EXCEPT !.k = k + 1,
                        !.pc = IF k + 1 < params.maxiter THEN "loop" ELSE "done",
                        !.stop = IF k + 1 < params.maxiter THEN "none" ELSE "range"]
Terminate(s, k, why) ==
    LET s1 == IF ChecksResidual(s) THEN calc_res(s, k) ELSE s
    IN  [s1 EXCEPT !.pc = "done", !.stop = why]

\* the for loop takes its next k, or ends with the range
Continue(s, k) ==
    [s EXCEPT !.k = k + 1,
              !.pc = IF k + 1 < params.maxiter THEN "loop" ELSE "done",
              !.stop = IF k + 1 < params.maxiter THEN "none" ELSE "range"]

\* if gamma[i] == 0.0: message; break
BreakdownUpdates(s, k, i) ==
    [update_psi(s, k, i) EXCEPT !.pc = "done", !.stop = "breakdown",
                                !.log = Append(s.log, Ev("breakdown", k, 0))]
Breakdown(s, k, i) ==
    [s EXCEPT !.pc = "done", !.stop = "breakdown",
              !.log = Append(@, Ev("breakdown", k, 0))]

\* lines 99-190: one pass of the loop body for the current k
Iteration(s, gamma, r2, res) ==
    IF params.restartlen = 0
    THEN \* i = k % rlen
         [s EXCEPT !.pc = "raised", !.err = "ZeroDivisionError"]
    ELSE
    LET k == s.k
        i == k % params.restartlen
        sA == [s EXCEPT !.r = [from |-> s.r.from, steps |-> s.r.steps + 1],
                        !.r2 = r2,
                        !.history = Append(@, r2),
                        !.log = Append(@, Ev("residual", k, r2))]
        sB == update_psi(sA, k, i)
    IN  IF gamma = 0 THEN Breakdown(s, k, i)
        ELSE IF ~NeedsUpdate(r2, s.rsq, k, i) THEN Continue(sA, k)
        ELSE IF converged(r2, s.rsq) THEN Terminate(sB, k, "converged")
        ELSE IF reached_maxiter(k) THEN Terminate(sB, k, "exhausted")
        ELSE IF need_restart(i) THEN Continue(restart(sB, k, res), k)
        ELSE Continue(sB, k)

\* ---------------------------------------------------------- fgcr: actions
\* the iteration about to run is the last of its Krylov cycle, so that a
\* restart may ask the operator for a fresh residual
RestartDue(s) ==
    params.restartlen > 0 /\ need_restart(s.k % params.restartlen)

\* g.default verbosity of "fgcr" is switched between solves
SetVerbose ==
    /\ fgcr.pc # "loop"
    /\ is_verbose' = ~is_verbose
    /\ UNCHANGED <<params, fgcr, twin, links, coarse>>

\* inv(psi, src) is entered; the twin solver is the same object state run
\* with the opposite verbosity on the same operator, src and psi
Solve ==
    /\ fgcr.pc # "loop"
    /\ \E src2 \in EntryNorms, res0 \in EntryNorms :
          /\ fgcr' = Enter(fgcr, is_verbose, src2, res0)
          /\ twin' = Enter(twin, ~is_verbose, src2, res0)
    /\ UNCHANGED <<params, is_verbose, links, coarse>>

\* one loop iteration; the collaborators return the same numbers to both
Iterate ==
    /\ fgcr.pc = "loop"
    /\ \E gamma \in {0, 1} :
       \E r2 \in IF gamma = 0 THEN {0} ELSE Norms :
       \E res \in IF gamma = 0 \/ ~RestartDue(fgcr) THEN {0} ELSE Norms :
          /\ fgcr' = Iteration(fgcr, gamma, r2, res)
          /\ twin' = IF twin.pc = "loop" THEN Iteration(twin, gamma, r2, res)
                     ELSE twin
    /\ UNCHANGED <<params, is_verbose, links, coarse>>

\* ---------------------------------------------------------- coarse: state
\* nhops = len(dirdisps_full); selflink = nhops
nhops == 8
selflink == 8
\* p_other = p + 4
backward_offset == 4

\* a mask that was never filled, and the all-ones mask
NoDir == <<-1, 0>>
OneMask == <<-2, 0>>

\* coarse sites: CoarseExtent blocks in each hop direction, one in the
\* extra dimension of a 5-dimensional grid (dimension 0)
Extent(nd, d) == IF nd = 5 /\ d = 0 THEN 1 ELSE CoarseExtent
Sites(nd) == {x \in [0..(nd - 1) -> 0..(CoarseExtent - 1)] :
                 \A d \in 0..(nd - 1) : x[d] < Extent(nd, d)}

\* one matrix entry of a link: where and how it was written, and the sign
\* flips and conjugations applied to it since
Entry(src, slot, hop, mask, x, row, col) ==
    [src |-> src, slot |-> slot, hop |-> hop, mask |-> mask,
     x |-> x, row |-> row, col |-> col, sign |-> 1, conj |-> FALSE]

\* a pre-allocated (or manually constructed) link field
Given(nd, n, p) ==
    [n |-> n,
     v |-> [x \in Sites(nd) |-> [a \in 0..(n - 1) |-> [b \in 0..(n - 1) |->
              Entry("given", p, NoDir, NoDir, x, a, b)]]]]

GivenLinks(nd, n) == [p \in 0..(2 * backward_offset) |-> Given(nd, n, p)]

ParamSets == [given : {TRUE}, hermitian : BOOLEAN, savelinks : BOOLEAN,
              uselut : BOOLEAN]
\* create_links(A, fmat, basis): no fourth argument
Omitted == [given |-> FALSE, hermitian |-> FALSE, savelinks |-> FALSE,
            uselut |-> FALSE]

IdleCoarse ==
    [op |-> "none", pc |-> "idle", err |-> "none", nd |-> 4, nbasis |-> 1,
     prm |-> Omitted, dirs |-> <<>>, dirdisps |-> <<>>,
     dirmasks |-> [p \in 0..(nhops - 1) |-> NoDir], dirluts |-> <<>>,
     i |-> 0, comm |-> FALSE]

\* ----------------------------------------------------- coarse: comm_links
\* Atmp[:, :, :, :, rows, cols] *= -1.0
negate(F, rows, cols) ==
    [F EXCEPT !.v = [x \in DOMAIN F.v |-> [a \in 0..(F.n - 1) |->
        [b \in 0..(F.n - 1) |->
            IF a \in rows /\ b \in cols
            THEN [F.v[x][a][b] EXCEPT !.sign = 0 - @]
            ELSE F.v[x][a][b]]]]]

\* gpt.cshift(F, mu, d): the result at x is F at x + d in direction mu
cshift(F, nd, mu, d) ==
    [F EXCEPT !.v = [x \in DOMAIN F.v |->
        F.v[[x EXCEPT ![mu] = (x[mu] + d + Extent(nd, mu)) % Extent(nd, mu)]]]]

\* gpt.adj(F): conjugate-transpose of the matrix at every site
adj(F) ==
    [F EXCEPT !.v = [x \in DOMAIN F.v |-> [a \in 0..(F.n - 1) |->
        [b \in 0..(F.n - 1) |-> [F.v[x][b][a] EXCEPT !.conj = ~@]]]]]

\* shift_fb = fb * -1
shift_fb_same(fb) == fb
shift_fb(fb) == fb * (-1)

\* assert nbasis % 2 == 0, evaluated only when not hermitian
parity_unchecked(hermitian, nbasis) == TRUE
parity_ok(hermitian, nbasis) == hermitian \/ nbasis % 2 = 0

\* the body of the loop over dirdisps_forward, from slot p on
RECURSIVE comm_loop(_, _, _, _, _)
comm_loop(A, nd, dirdisps_forward, hermitian, p) ==
    IF p >= Len(dirdisps_forward) THEN [A |-> A, err |-> "none"]
    ELSE
    LET mu == dirdisps_forward[p + 1][1]
        fb == dirdisps_forward[p + 1][2]
        p_other == p + backward_offset
        nbasis == A[0].n
        nb == nbasis \div 2
        Atmp == IF hermitian THEN A[p]
                ELSE negate(negate(A[p], 0..(nb - 1), nb..(nbasis - 1)),
                            nb..(nbasis - 1), 0..(nb - 1))
    IN  IF ~parity_ok(hermitian, nbasis)
        THEN [A |-> A, err |-> "AssertionError"]
        ELSE comm_loop([A EXCEPT ![p_other] = adj(cshift(Atmp, nd, mu, shift_fb(fb)))],
                       nd, dirdisps_forward, hermitian, p + 1)

comm_links(A, nd, dirdisps_forward, hermitian) ==
    IF Cardinality(DOMAIN A) # 2 * Len(dirdisps_forward) + 1
    THEN [A |-> A, err |-> "AssertionError"]
    ELSE comm_loop(A, nd, dirdisps_forward, hermitian, 0)

\* --------------------------------------------------- coarse: create_links
\* dirs = [1, 2, 3, 4] if f_grid.nd == 5 else [0, 1, 2, 3]
dirs_of(nd) == IF nd = 5 THEN <<1, 2, 3, 4>> ELSE <<0, 1, 2, 3>>
\* dirdisps_full = zip(dirs * 2, [+1] * 4 + [-1] * 4)
dirdisps_full(dirs) ==
    [q \in 1..8 |-> <<dirs[((q - 1) % 4) + 1], IF q <= 4 THEN 1 ELSE -1>>]
\* dirdisps_forward = zip(dirs, [disp] * 4)
dirdisps_forward_of(dirs) == [q \in 1..4 |-> <<dirs[q], 1>>]

\* for mu in dirs: make_mask(dirmasks[mu], forward); make_mask(dirmasks[mu + 4], backward)
RECURSIVE fill_masks(_, _, _)
fill_masks(dm, dirs, q) ==
    IF q > Len(dirs) THEN [dirmasks |-> dm, err |-> "none"]
    ELSE LET mu == dirs[q]
             dm1 == [dm EXCEPT ![mu] = <<mu, 1>>]
         IN  IF mu + 4 >= nhops
             THEN [dirmasks |-> dm1, err |-> "IndexError"]
             ELSE fill_masks([dm1 EXCEPT ![mu + 4] = <<mu, -1>>], dirs, q + 1)

\* the mask that restricts the projection of Mvr[p]
working_mask(c, p) == IF c.prm.uselut THEN c.dirluts[p + 1] ELSE c.dirmasks[p]

\* lines 95-137 for basis vector i: column i of each working slot and of
\* the self link
write_vector(A, c, i) ==
    [p \in DOMAIN A |->
        IF p < Len(c.dirdisps)
        THEN [A[p] EXCEPT !.v = [x \in DOMAIN A[p].v |-> [a \in 0..(A[p].n - 1) |->
                [b \in 0..(A[p].n - 1) |->
                    IF b = i
                    THEN Entry("hop", p, c.dirdisps[p + 1], working_mask(c, p), x, a, b)
                    ELSE A[p].v[x][a][b]]]]]
        ELSE IF p = selflink
        THEN [A[p] EXCEPT !.v = [x \in DOMAIN A[p].v |-> [a \in 0..(A[p].n - 1) |->
                [b \in 0..(A[p].n - 1) |->
                    IF b = i
                    THEN Entry("self", p, NoDir, OneMask, x, a, b)
                    ELSE A[p].v[x][a][b]]]]]
        ELSE A[p]]

\* -------------------------------------------------------- coarse: actions
Raise(c, e) == [c EXCEPT !.pc = "raised", !.err = e]

\* lines 23-64 of create_links, entered with or without params
enter_create(op, nd, n, prm) ==
    LET c == [IdleCoarse EXCEPT !.op = op, !.nd = nd, !.nbasis = n, !.prm = prm]
    IN  IF ~prm.given THEN Raise(c, "TypeError")
        ELSE IF prm.hermitian /\ ~prm.savelinks THEN Raise(c, "AssertionError")
        ELSE [c EXCEPT !.pc = "masks", !.dirs = dirs_of(nd)]

CreateLinks ==
    /\ coarse.pc = "idle"
    /\ \E nd \in {4, 5}, n \in 1..MaxBasis, prm \in ParamSets :
          /\ coarse' = enter_create("create_links", nd, n, prm)
          /\ links' = GivenLinks(nd, n)
    /\ UNCHANGED fgcrVars

\* recreate_links(A, fmat, basis): create_links(A, fmat, basis)
RecreateLinks ==
    /\ coarse.pc = "idle"
    /\ \E nd \in {4, 5}, n \in 1..MaxBasis :
          /\ coarse' = enter_create("recreate_links", nd, n, Omitted)
          /\ links' = GivenLinks(nd, n)
    /\ UNCHANGED fgcrVars

\* lines 66-85: the masks and the working direction set
Masks ==
    /\ coarse.pc = "masks"
    /\ LET m == fill_masks(coarse.dirmasks, coarse.dirs, 1)
           c == [coarse EXCEPT !.dirmasks = m.dirmasks]
       IN  coarse' =
             IF m.err # "none" THEN Raise(c, m.err)
             ELSE [c EXCEPT !.dirdisps = IF c.prm.savelinks
                                         THEN dirdisps_forward_of(c.dirs)
                                         ELSE dirdisps_full(c.dirs),
                            !.pc = IF c.prm.uselut THEN "luts" ELSE "basis"]
    /\ UNCHANGED <<links>>
    /\ UNCHANGED fgcrVars

\* lines 87-93: one lookup table per working slot
Luts ==
    /\ coarse.pc = "luts"
    /\ coarse' = [coarse EXCEPT
                    !.dirluts = [q \in 1..Len(coarse.dirdisps) |-> coarse.dirmasks[q - 1]],
                    !.pc = "basis"]
    /\ UNCHANGED <<links>>
    /\ UNCHANGED fgcrVars

\* lines 95-137: the next basis vector
Vector ==
    /\ coarse.pc = "basis"
    /\ coarse.i < coarse.nbasis
    /\ links' = write_vector(links, coarse, coarse.i)
    /\ coarse' = [coarse EXCEPT !.i = @ + 1]
    /\ UNCHANGED fgcrVars

\* the call of comm_links and what it leaves behind
communicate(c, A) ==
    LET r == comm_links(A, c.nd, dirdisps_forward_of(c.dirs), c.prm.hermitian)
    IN  [A |-> r.A,
         c |-> IF r.err # "none" THEN Raise(c, r.err)
               ELSE [c EXCEPT !.pc = "done", !.comm = TRUE]]

\* lines 139-147: communicate opposite links if savelinks, and return
Finish ==
    /\ coarse.pc = "basis"
    /\ coarse.i = coarse.nbasis
    /\ IF coarse.prm.savelinks
       THEN /\ links' = communicate(coarse, links).A
            /\ coarse' = communicate(coarse, links).c
       ELSE /\ links' = links
            /\ coarse' = [coarse EXCEPT !.pc = "done"]
    /\ UNCHANGED fgcrVars

\* a caller hands comm_links a manually constructed forward link set
ManualLinks ==
    /\ coarse.pc = "idle"
    /\ \E n \in 1..MaxBasis, hermitian \in BOOLEAN :
          /\ links' = GivenLinks(4, n)
          /\ coarse' = [IdleCoarse EXCEPT !.op = "comm_links", !.pc = "comm",
                           !.nbasis = n,
                           !.prm = [given |-> TRUE, hermitian |-> hermitian,
                                    savelinks |-> TRUE, uselut |-> FALSE],
                           !.dirs = dirs_of(4),
                           !.dirdisps = dirdisps_forward_of(dirs_of(4))]
    /\ UNCHANGED fgcrVars

\* comm_links(A, dirdisps_forward, hermitian) on that set
CommLinks ==
    /\ coarse.pc = "comm"
    /\ links' = communicate(coarse, links).A
    /\ coarse' = communicate(coarse, links).c
    /\ UNCHANGED fgcrVars

\* --------------------------------------------------------- specifications
Init ==
    /\ params \in Params
    /\ is_verbose \in BOOLEAN
    /\ fgcr = NewFgcr
    /\ twin = NewFgcr
    /\ coarse = IdleCoarse
    /\ links = <<>>

Next == SetVerbose \/ Solve \/ Iterate

Spec == Init /\ [][Next]_vars

InitCoarse ==
    /\ params = [eps |-> 1, maxiter |-> 1, restartlen |-> 1, checkres |-> TRUE]
    /\ is_verbose = FALSE
    /\ fgcr = NewFgcr
    /\ twin = NewFgcr
    /\ coarse = IdleCoarse
    /\ links = <<>>

NextCoarse ==
    CreateLinks \/ RecreateLinks \/ Masks \/ Luts \/ Vector \/ Finish
    \/ ManualLinks \/ CommLinks

SpecCoarse == InitCoarse /\ [][NextCoarse]_vars

\* ------------------------------------------------------ reading the log
\* positions of the log at which event e of iteration k is recorded
At(s, e, k) == {n \in 1..Len(s.log) : s.log[n].ev = e /\ s.log[n].k = k}
Count(s, e, k) == Cardinality(At(s, e, k))

\* the iterations the call has started, completed or not
Started(s) == {s.log[n].k : n \in {m \in 1..Len(s.log) :
                                      s.log[m].ev \in {"residual", "breakdown"}}}
\* the r2 values of the residual updates, in the order they were made
RECURSIVE Residuals(_)
Residuals(log) ==
    IF log = <<>> THEN <<>>
    ELSE IF Head(log).ev = "residual"
         THEN <<Head(log).val>> \o Residuals(Tail(log))
         ELSE Residuals(Tail(log))
\* the log without the diagnostic recomputations of the residual
RECURSIVE WithoutChecks(_)
WithoutChecks(log) ==
    IF log = <<>> THEN <<>>
    ELSE IF Head(log).ev = "calc_res"
         THEN WithoutChecks(Tail(log))
         ELSE <<Head(log)>> \o WithoutChecks(Tail(log))

\* iteration j updated the residual and what it found
UpdatedResidual(s, j) == Count(s, "residual", j) = 1
ResidualOf(s, j) == s.log[CHOOSE n \in At(s, "residual", j) : TRUE].val
Converged(s, j) == UpdatedResidual(s, j) /\ ResidualOf(s, j) <= s.rsq
BrokeDown(s, j) == Count(s, "breakdown", j) = 1
Exhausted(j) == j + 1 = params.maxiter
RestartNeeded(j) == (j % params.restartlen) + 1 = params.restartlen
Stopping(s, j) == Converged(s, j) \/ BrokeDown(s, j) \/ Exhausted(j)

\* ------------------------------------------------------------------ C1
\* C1 (as stated): a solve with maxiter >= 1 never raises.
C1_NeverRaises ==
    (fgcr.pc # "idle" /\ params.maxiter >= 1) => fgcr.pc # "raised"

\* C1 (amended): a solve with maxiter >= 1, restartlen >= 1 and src and the
\* initial residual not both zero does not raise, starts at most maxiter
\* iterations, can always take its next iteration while it is in the loop,
\* and stops exactly at the first iteration that converged (r2 <= rsq),
\* broke down (gamma[i] == 0) or was the last one (k + 1 == maxiter).
C1_StopsAtFirstStoppingIteration ==
    (/\ fgcr.pc # "idle"
     /\ params.maxiter >= 1
     /\ params.restartlen >= 1
     /\ ~(fgcr.src2 = 0 /\ fgcr.res0 = 0))
    => /\ fgcr.pc \in {"loop", "done"}
       /\ Cardinality(Started(fgcr)) <= params.maxiter
       /\ fgcr.pc = "loop" =>
             /\ fgcr.k < params.maxiter
             /\ ENABLED Iterate
             /\ Started(fgcr) = 0..(fgcr.k - 1)
             /\ \A j \in Started(fgcr) : ~Stopping(fgcr, j)
       /\ fgcr.pc = "done" =>
             /\ Started(fgcr) = 0..fgcr.k
             /\ Stopping(fgcr, fgcr.k)
             /\ \A j \in 0..(fgcr.k - 1) : ~Stopping(fgcr, j)
             /\ fgcr.stop \in {"converged", "breakdown", "exhausted"}

\* a solve that converged in its third iteration with budget to spare
C1_Witness ==
    /\ fgcr.pc = "done"
    /\ fgcr.stop = "converged"
    /\ fgcr.k = 2
    /\ params.maxiter = 4

\* ------------------------------------------------------------------ C2
\* C2: history is None before the first solve and afterwards holds exactly
\* the r2 values of the residual updates of the most recent solve, in
\* iteration order, one per iteration that completed its update; a solve
\* that breaks down at iteration k returns normally with len(history) = k.
C2_HistoryOfLastCall ==
    /\ fgcr.pc = "idle" <=> fgcr.history = None
    /\ fgcr.pc # "idle" =>
          /\ fgcr.history = Residuals(fgcr.log)
          /\ \A n \in 1..Len(fgcr.history) : UpdatedResidual(fgcr, n - 1)
    /\ fgcr.stop = "breakdown" =>
          /\ fgcr.pc = "done"
          /\ fgcr.err = "none"
          /\ Len(fgcr.history) = fgcr.k
          /\ ~UpdatedResidual(fgcr, fgcr.k)

\* a breakdown in the third iteration, two values recorded
C2_Witness ==
    /\ fgcr.stop = "breakdown"
    /\ fgcr.k = 2
    /\ Len(fgcr.history) = 2
    /\ fgcr.history[1] # fgcr.history[2]

AfterLastUpdate(s) ==
    LET n == CHOOSE m \in At(s, "update_psi", s.k) : TRUE
    IN  SubSeq(s.log, n + 1, Len(s.log))
EndedByStop(s) == s.pc = "done" /\ s.stop \in {"converged", "exhausted"}

\* C4 (as stated): a solve that ends converged or exhausted recomputes the
\* true residual after its last back-substitution if checkres, and applies
\* no operator after it otherwise.
C4_CheckresAlone ==
    EndedByStop(fgcr) =>
       AfterLastUpdate(fgcr) =
          (IF params.checkres THEN <<Ev("calc_res", fgcr.k, 0)>> ELSE <<>>)

\* C4 (amended): the true residual is recomputed, once and after the last
\* back-substitution, exactly when checkres is true and the "fgcr"
\* verbosity was enabled when the solve was entered; otherwise nothing
\* follows the last back-substitution.
C4_CheckresWhenVerbose ==
    EndedByStop(fgcr) =>
       /\ Count(fgcr, "update_psi", fgcr.k) = 1
       /\ AfterLastUpdate(fgcr) =
             (IF params.checkres /\ fgcr.verbose
              THEN <<Ev("calc_res", fgcr.k, 0)>> ELSE <<>>)
       /\ Count(fgcr, "calc_res", fgcr.k) > 0 =>
             fgcr.r = [from |-> fgcr.psi, steps |-> 0]

\* a verbose solve with checkres that ran out of iterations and recomputed
\* the residual
C4_Witness ==
    /\ EndedByStop(fgcr)
    /\ fgcr.stop = "exhausted"
    /\ fgcr.verbose
    /\ params.checkres
    /\ fgcr.log[Len(fgcr.log)] = Ev("calc_res", fgcr.k, 0)

\* ------------------------------------------------------------------ C5
\* C5: a solve and the same solve with the opposite verbosity are at the
\* same place after every iteration, with the same psi, the same history
\* and the same events apart from the diagnostic residual recomputation.
C5_VerbosityIndependent ==
    fgcr.pc # "idle" =>
       /\ twin.verbose = ~fgcr.verbose
       /\ twin.pc = fgcr.pc
       /\ twin.k = fgcr.k
       /\ twin.stop = fgcr.stop
       /\ twin.err = fgcr.err
       /\ twin.psi = fgcr.psi
       /\ twin.history = fgcr.history
       /\ WithoutChecks(twin.log) = WithoutChecks(fgcr.log)

\* a verbose solve that recomputed the residual, which its quiet twin
\* did not, after a restart and two back-substitutions
C5_Witness ==
    /\ fgcr.pc = "done"
    /\ fgcr.verbose
    /\ Len(fgcr.psi) = 2
    /\ Len(fgcr.history) >= 2
    /\ twin.log # fgcr.log

\* ----------------------------------------------------------------- C10
\* C10: after a breakdown at iteration k, psi holds the back-substitutions
\* of the completed cycles only (none if no restart has happened): it is
\* what it was when the cycle of k began, and no update_psi ran in that
\* cycle.
C10_BreakdownLeavesPsi ==
    (fgcr.stop = "breakdown" /\ params.restartlen >= 1) =>
       LET rlen == params.restartlen
           i == fgcr.k % rlen
       IN  /\ fgcr.psi = fgcr.cyclePsi
           /\ fgcr.psi = [n \in 1..(fgcr.k \div rlen) |->
                             <<(n - 1) * rlen, rlen - 1>>]
           /\ \A j \in (fgcr.k - i)..fgcr.k : Count(fgcr, "update_psi", j) = 0

\* a breakdown at in-cycle index 1 of the second cycle
C10_Witness ==
    /\ fgcr.stop = "breakdown"
    /\ params.restartlen = 2
    /\ fgcr.k = 3
    /\ fgcr.psi = <<<<0, 1>>>>

\* ------------------------------------------------------------------ C6
\* C6: a call of recreate_links completes, as create_links does.
C6_RecreateCompletes ==
    (coarse.op = "recreate_links" /\ coarse.pc # "idle") => coarse.pc # "raised"

\* ------------------------------------------------------------------ C7
Returned(c) == c.pc = "done"
Ended(c) == c.pc \in {"done", "raised"}
OddNonHermitian(c) ==
    /\ c.op = "create_links"
    /\ Ended(c)
    /\ ~c.prm.hermitian
    /\ c.nbasis % 2 = 1

\* C7 (as stated): a create_links call with hermitian = false and an odd
\* number of basis vectors never returns normally, whatever savelinks is.
C7_OddBasisNeverReturns ==
    OddNonHermitian(coarse) => ~Returned(coarse)

\* C7 (amended): with hermitian = false and an odd number of basis vectors,
\* a create_links call with savelinks = true never returns normally (on a
\* 4-dimensional grid it fails the parity assertion of comm_links after all
\* basis vectors were coarsened); with savelinks = false the parity is not
\* checked, and the call on a 4-dimensional grid returns normally.
C7_OddBasisFailsWhenSaving ==
    OddNonHermitian(coarse) =>
       IF coarse.prm.savelinks
       THEN /\ ~Returned(coarse)
            /\ coarse.nd = 4 => /\ coarse.err = "AssertionError"
                                /\ coarse.i = coarse.nbasis
       ELSE /\ coarse.err # "AssertionError"
            /\ coarse.nd = 4 => Returned(coarse)

\* three basis vectors coarsened, then the parity assertion fails
C7_Witness ==
    /\ OddNonHermitian(coarse)
    /\ coarse.prm.savelinks
    /\ coarse.nd = 4
    /\ coarse.nbasis = 3
    /\ coarse.i = 3
    /\ coarse.err = "AssertionError"

\* ------------------------------------------------------------------ C8
\* the site one block back in direction mu
Behind(x, mu) == [x EXCEPT ![mu] = (x[mu] + CoarseExtent - 1) % CoarseExtent]
\* row a, column b lies in the upper-right or lower-left quadrant
OffDiagonal(n, a, b) == (a < n \div 2) # (b < n \div 2)

\* C8: a completed comm_links leaves the forward links and the self link as
\* they were and makes every backward link A[p + 4], at every site, the
\* conjugate-transpose of the forward link A[p] one block back in direction
\* mu, with the sign of exactly the off-diagonal quadrants flipped (once)
\* when not hermitian and no sign flipped when hermitian.
C8_BackwardFromForward ==
    [][(coarse'.comm /\ ~coarse.comm) =>
          /\ DOMAIN links' = DOMAIN links
          /\ \A p \in 0..3 : links'[p] = links[p]
          /\ links'[8] = links[8]
          /\ \A p \in 0..3 :
                LET mu == coarse.dirs[p + 1]
                    n == links[p].n
                IN  /\ links'[p + 4].n = n
                    /\ \A x \in DOMAIN links[p].v : \A a, b \in 0..(n - 1) :
                          LET fwd == links[p].v[Behind(x, mu)][b][a]
                          IN  links'[p + 4].v[x][a][b] =
                                 [fwd EXCEPT
                                    !.conj = ~@,
                                    !.sign = IF ~coarse.prm.hermitian
                                                /\ OffDiagonal(n, a, b)
                                             THEN 0 - @ ELSE @]]_vars

\* backward links derived from a manual forward set of 2 x 2 matrices, not
\* hermitian: the upper-right entry of the first backward link comes, sign
\* flipped and conjugated, from the lower-left entry one block back
C8_Witness ==
    /\ coarse.op = "comm_links"
    /\ coarse.comm
    /\ ~coarse.prm.hermitian
    /\ coarse.nbasis = 2
    /\ LET x == [d \in 0..3 |-> 0]
           e == links[4].v[x][0][1]
       IN  /\ e.sign = -1
           /\ e.conj
           /\ e.slot = 0 /\ e.row = 1 /\ e.col = 0
           /\ e.x = [x EXCEPT ![0] = CoarseExtent - 1]

\* ------------------------------------------------------------------ C9
\* C9: on a 4- and on a 5-dimensional fine grid, mask construction never
\* indexes dirmasks out of range, and every hop entry written to a link was
\* projected under the boundary mask of its own direction and sign.
C9_MaskOfDirection ==
    /\ coarse.err # "IndexError"
    /\ \A p \in DOMAIN links : \A x \in DOMAIN links[p].v :
          \A a, b \in 0..(links[p].n - 1) :
             LET e == links[p].v[x][a][b]
             IN  e.src = "hop" => e.mask = e.hop
====
